---- MODULE Spec2Model ----
(***************************************************************************)
(* A model of MemoryDB (src/index.js): the in-memory ShareDB database      *)
(* adapter.  The store is two maps, docs (collection -> id -> snapshot)    *)
(* and ops (collection -> id -> array of operations); every operation of   *)
(* the external interface except close defers its handler with             *)
(* process.nextTick, and the handler then runs to completion.              *)
(***************************************************************************)
EXTENDS Integers, Sequences, FiniteSets, TLC

(***************************************************************************)
(* Bounds of the model.                                                    *)
(***************************************************************************)
MaxCommits == 2        \* commit calls issued in one behaviour
MaxQueue == 2          \* handlers pending on the nextTick queue at once
MaxMutations == 1      \* in-place mutations the caller makes to objects it holds

Collections == {"c1", "c2"}
Ids == {"a", "b"}

(***************************************************************************)
(* Values.  Null stands for JavaScript null / undefined / an absent field, *)
(* which the code never tells apart (it tests !snapshot.type, to == null). *)
(***************************************************************************)
Null == "null"

\* Document bodies.  "objX" is the plain object {name: "x"}; "objDate" is
\* {name: "y", at: <Date>}, which is not plain JSON; "objStr" is what
\* JSON.parse(JSON.stringify(.)) makes of it, {name: "y", at: "<ISO string>"};
\* "objM" is an object after a caller has mutated it in place.
DataIn == {Null, "objX", "objDate"}

\* The version field of an op: absent, or one of these numbers.
OpVersions == {0, 1, 2}
\* The v field of the snapshot passed to commit.
SnapVersions == {1, 2}

\* An op object {v: ..., <payload p>}.  hasV = FALSE is an op without a v
\* field.  p identifies the payload (the ordinal of the commit call that
\* passed it); mut is set once the caller has mutated the object in place.
Op(hasV, v, p) == [k |-> "op", hasV |-> hasV, v |-> v, p |-> p, mut |-> FALSE]
\* An array index that was never assigned (a hole of a sparse array).
Hole == [k |-> "hole", hasV |-> FALSE, v |-> 0, p |-> 0, mut |-> FALSE]
\* What JSON makes of a hole: null.
NullOp == [k |-> "null", hasV |-> FALSE, v |-> 0, p |-> 0, mut |-> FALSE]

Snapshot(v, type, data) == [v |-> v, type |-> type, data |-> data]
NoSnapshot == Snapshot(0, Null, Null)

\* A reference to an object together with its value: ref says who else holds
\* the very same object ("store": it is an object of db.docs / db.ops, "fresh":
\* nobody else); at is the slot of the op log the object sits in (0 otherwise).
Handle(ref, at, val) == [ref |-> ref, at |-> at, val |-> val]

(***************************************************************************)
(* clone: JSON.parse(JSON.stringify(obj)).  The result is a new object,    *)
(* and only what JSON keeps survives: a Date becomes a string, a hole of   *)
(* an array becomes null.                                                  *)
(***************************************************************************)
JSONData(d) == IF d = "objDate" THEN "objStr" ELSE d
JSONOp(o) == IF o.k = "hole" THEN NullOp ELSE o

\* (no copy: the very object is handed on)
cloneData_Alias(h) == h
cloneData(h) == Handle("fresh", 0, JSONData(h.val))

cloneOps(hs) == [i \in 1..Len(hs) |-> Handle("fresh", 0, JSONOp(hs[i].val))]

cloneSnapshot(s) == Snapshot(s.v, s.type, JSONData(s.data))

(***************************************************************************)
(* The store: this.docs and this.ops.                                      *)
(*   ops[c]  = [def, m]; m[id] = [def, items, undef]: the array opLog;     *)
(*             items are its indexed slots 0..length-1 (items[i+1] is slot *)
(*             i), undef is the property stored under the key "undefined". *)
(*   docs[c] = [def, keys, m]; keys are the ids of the object in insertion *)
(*             order (the order of for..in), m[id] the stored snapshot.    *)
(***************************************************************************)
NoLog == [def |-> FALSE, items |-> <<>>, undef |-> Hole]
EmptyLog == [def |-> TRUE, items |-> <<>>, undef |-> Hole]
NoOps == [def |-> FALSE, m |-> [id \in Ids |-> NoLog]]
NoDocs == [def |-> FALSE, keys |-> <<>>, m |-> [id \in Ids |-> NoSnapshot]]

\* Seq helpers
Holes(n) == [i \in 1..n |-> Hole]
Without(s, x) == SelectSeq(s, LAMBDA y : y # x)
Has(s, x) == \E i \in 1..Len(s) : s[i] = x
Min(a, b) == IF a < b THEN a ELSE b

\* _getOpLogSync: creates the collection's map and the document's array when
\* they are missing; returns the store's ops after that.
_getOpLogSync(o, c, id) ==
  IF o[c].def /\ o[c].m[id].def THEN o
  ELSE [o EXCEPT ![c] = [def |-> TRUE, m |-> [o[c].m EXCEPT ![id] = EmptyLog]]]

\* _getVersionSync: (collectionOps && collectionOps[id] && length) || 0
_getVersionSync(o, c, id) ==
  IF o[c].def /\ o[c].m[id].def THEN Len(o[c].m[id].items) ELSE 0

\* opLog[op.v] = op on a JavaScript array.
ArraySet(log, op) ==
  LET len == Len(log.items) IN
  IF ~op.hasV THEN [log EXCEPT !.undef = op]
  ELSE IF op.v < len THEN [log EXCEPT !.items[op.v + 1] = op]
  ELSE [log EXCEPT !.items = log.items \o Holes(op.v - len) \o <<op>>]

ConsistencyError == "Internal consistancy error - database missing parent version"
NoError == "none"

\* _writeOpSync: [ops |-> the store's ops afterwards, err |-> the returned error]
\* (a write that does not look for the parent version)
_writeOpSync_NoGuard(o, c, id, op) ==
  LET o1 == _getOpLogSync(o, c, id) IN
  [ops |-> [o1 EXCEPT ![c].m[id] = ArraySet(o1[c].m[id], op)], err |-> NoError]

_writeOpSync(o, c, id, op) ==
  LET o1 == _getOpLogSync(o, c, id)
      opLog == o1[c].m[id]
  IN  IF op.hasV /\ Len(opLog.items) < op.v - 1
        THEN [ops |-> o1, err |-> ConsistencyError]
        ELSE [ops |-> [o1 EXCEPT ![c].m[id] = ArraySet(opLog, op)], err |-> NoError]

\* (a write that files the snapshot under the id alone, in every collection)
_writeSnapshotSync_AnyCollection(d, c, id, snapshot) ==
  [x \in Collections |->
     LET cd == [d[x] EXCEPT !.def = TRUE] IN
     IF snapshot.type = Null
       THEN [cd EXCEPT !.keys = Without(cd.keys, id), !.m[id] = NoSnapshot]
       ELSE [cd EXCEPT !.keys = IF Has(cd.keys, id) THEN cd.keys ELSE Append(cd.keys, id),
                       !.m[id] = cloneSnapshot(snapshot)]]

\* _writeSnapshotSync: the store's docs afterwards.
_writeSnapshotSync(d, c, id, snapshot) ==
  LET cd == [d[c] EXCEPT !.def = TRUE] IN
  IF snapshot.type = Null
    THEN [d EXCEPT ![c] = [cd EXCEPT !.keys = Without(cd.keys, id),
                                     !.m[id] = NoSnapshot]]
    ELSE [d EXCEPT ![c] = [cd EXCEPT
            !.keys = IF Has(cd.keys, id) THEN cd.keys ELSE Append(cd.keys, id),
            !.m[id] = cloneSnapshot(snapshot)]]

\* new MemorySnapshot(id, version, type, data); data is a handle.
MemorySnapshot(id, version, type, data) ==
  [id |-> id, v |-> version, type |-> type, data |-> data]

HasDoc(d, c, id) == d[c].def /\ Has(d[c].keys, id)

\* (a sentinel that always reports version 0)
_getSnapshotSync_ZeroVersion(d, o, c, id) ==
  IF HasDoc(d, c, id)
    THEN MemorySnapshot(id, d[c].m[id].v, d[c].m[id].type,
                        cloneData(Handle("store", 0, d[c].m[id].data)))
    ELSE MemorySnapshot(id, 0, Null, Handle("fresh", 0, Null))

_getSnapshotSync(d, o, c, id) ==
  IF HasDoc(d, c, id)
    THEN MemorySnapshot(id, d[c].m[id].v, d[c].m[id].type,
                        cloneData(Handle("store", 0, d[c].m[id].data)))
    ELSE MemorySnapshot(id, _getVersionSync(o, c, id), Null, Handle("fresh", 0, Null))


(***************************************************************************)
(* Queries.  An expression is [hasQuery, q, flat]: flat are the top-level  *)
(* keys other than $query, as <<key, value>> pairs; q is the $query        *)
(* sub-object when hasQuery.                                               *)
(***************************************************************************)
metaOperators == {"$comment", "$explain", "$hint", "$maxScan", "$max", "$min",
                  "$orderby", "$returnKey", "$showDiskLoc", "$snapshot",
                  "$count", "$aggregate"}
cursorOperators == [k \in {"$limit", "$skip"} |-> IF k = "$limit" THEN "limit" ELSE "skip"]

Expr(flat) == [hasQuery |-> FALSE, q |-> {}, flat |-> flat]
Canonical(q, flat) == [hasQuery |-> TRUE, q |-> q, flat |-> flat]

\* metaOperators and cursorOperators are object literals: object[key] finds
\* the keys written in the literal and also the members every object inherits
\* from Object.prototype (functions, which are truthy).
ObjectPrototype == {"constructor", "toString", "valueOf", "hasOwnProperty"}
\* if (object[key]), for an object whose own keys all hold truthy values
Lookup(own, key) == key \in own \/ key \in ObjectPrototype

\* normalizeQuery: [query |-> $query, findOptions |-> $findOptions, top |-> the
\* other top-level keys of the result]
normalizeQuery(expression) ==
  IF expression.hasQuery
    THEN [query |-> expression.q, findOptions |-> {}, top |-> expression.flat]
    ELSE [query |-> {kv \in expression.flat :
                       ~Lookup(metaOperators, kv[1])
                       /\ ~Lookup(DOMAIN cursorOperators, kv[1])},
          findOptions |-> {<<cursorOperators[kv[1]], kv[2]>> :
                             kv \in {x \in expression.flat :
                                       ~Lookup(metaOperators, x[1])
                                       /\ Lookup(DOMAIN cursorOperators, x[1])}},
          top |-> {kv \in expression.flat : Lookup(metaOperators, kv[1])}]

HasKey(pairs, key) == \E kv \in pairs : kv[1] = key
\* object[key]: the value under the key, Null (undefined) without the key
Get(pairs, key) == IF HasKey(pairs, key) THEN (CHOOSE kv \in pairs : kv[1] = key)[2] ELSE Null
\* if (value), for the values of $aggregate and $count
Truthy(value) == value \notin {Null, "false"}

\* The external evaluator (mingo), as a black box: a selector is a set of
\* field = value conditions, and a document matches when all of them hold.
Field(data, key) ==
  IF key = "name"
    THEN (IF data = "objX" THEN "x" ELSE IF data = "objM" THEN "m" ELSE "y")
    ELSE Null
Matches(selector, data) == \A kv \in selector : Field(data, kv[1]) = kv[2]
\* The evaluator's find over the candidates, in their order; of the options
\* it is given it honours skip and limit.
NoOptions == {}
Find(selector, options, candidates) ==
  LET matched == SelectSeq(candidates, LAMBDA s : Matches(selector, s.data.val))
      skip == IF HasKey(options, "skip") THEN Get(options, "skip") ELSE 0
      limit == IF HasKey(options, "limit") THEN Get(options, "limit") ELSE Len(matched)
  IN  SubSeq(matched, skip + 1, Min(skip + limit, Len(matched)))
\* Mingo.Aggregator(pipeline).run(datas): an uninterpreted result of both.
Aggregate(pipeline, datas) == [pipeline |-> pipeline, datas |-> datas]
NoAggregate == Aggregate({}, <<>>)

SeqMap(f(_), s) == [i \in 1..Len(s) |-> f(s[i])]

\* slice(from, to) of an array, both bounds non-negative.
Slice(items, from, to) == SubSeq(items, Min(from, Len(items)) + 1, Min(to, Len(items)))


(***************************************************************************)
(* The handlers that the methods defer with process.nextTick, as functions *)
(* of the store (d = this.docs, o = this.ops) and the arguments.           *)
(***************************************************************************)
True == "true"
False == "false"

\* (a commit that rejects only the versions already written)
commitHandler_AcceptFuture(d, o, c, id, op, snapshot) ==
  LET version == _getVersionSync(o, c, id) IN
  IF snapshot.v < version + 1
    THEN [docs |-> d, ops |-> o, version |-> version,
          err |-> NoError, succeeded |-> False]
    ELSE LET w == _writeOpSync(o, c, id, op) IN
         IF w.err # NoError
           THEN [docs |-> d, ops |-> w.ops, version |-> version,
                 err |-> w.err, succeeded |-> Null]
           ELSE [docs |-> _writeSnapshotSync(d, c, id, snapshot), ops |-> w.ops,
                 version |-> version, err |-> NoError, succeeded |-> True]

\* commit, lines 65-75: [docs, ops: the store afterwards; version: what
\* _getVersionSync returned; err, succeeded: the callback's arguments
\* (succeeded is Null in callback(err))]
commitHandler(d, o, c, id, op, snapshot) ==
  LET version == _getVersionSync(o, c, id) IN
  IF snapshot.v # version + 1
    THEN [docs |-> d, ops |-> o, version |-> version,
          err |-> NoError, succeeded |-> False]
    ELSE LET w == _writeOpSync(o, c, id, op) IN
         IF w.err # NoError
           THEN [docs |-> d, ops |-> w.ops, version |-> version,
                 err |-> w.err, succeeded |-> Null]
           ELSE [docs |-> _writeSnapshotSync(d, c, id, snapshot), ops |-> w.ops,
                 version |-> version, err |-> NoError, succeeded |-> True]

\* A getOps call with to null or omitted (the model passes no negative to).
NoTo == -1

\* (a read that takes the operations out of the log: splice for slice)
getOpsHandler_Splice(o, c, id, from, to) ==
  LET o1 == _getOpLogSync(o, c, id)
      opLog == o1[c].m[id].items
      to1 == IF to = NoTo THEN Len(opLog) ELSE to
      first == Min(from, Len(opLog))
      part == Slice(opLog, from, to1)
  IN  [ops |-> [o1 EXCEPT ![c].m[id].items =
                  SubSeq(opLog, 1, first) \o SubSeq(opLog, first + Len(part) + 1, Len(opLog))],
       result |-> cloneOps([i \in 1..Len(part) |-> Handle("store", first + i - 1, part[i])])]

\* getOps, lines 102-107: [ops: the store afterwards, result: the list passed
\* to the callback]
getOpsHandler(o, c, id, from, to) ==
  LET o1 == _getOpLogSync(o, c, id)
      opLog == o1[c].m[id].items
      to1 == IF to = NoTo THEN Len(opLog) ELSE to
      first == Min(from, Len(opLog))
      part == Slice(opLog, from, to1)
  IN  [ops |-> o1,
       result |-> cloneOps([i \in 1..Len(part) |-> Handle("store", first + i - 1, part[i])])]

\* query, lines 115-151: [thrown: the handler threw (data.__snapshot = ... on
\* a null data), snapshots and extra: the callback's arguments]
NoExtra == [kind |-> "undefined", count |-> 0, agg |-> NoAggregate]
\* The evaluator is called as new Mingo.Query(query.$query) and find(datas):
\* with the selector and the candidates, and no options.  Each candidate is
\* the data of a live document with its snapshot attached as __snapshot, a
\* field that no selector of the model names.
queryHandler(d, o, c, expression) ==
  LET query == normalizeQuery(expression)
      keys == IF d[c].def THEN d[c].keys ELSE <<>>
      found == [i \in 1..Len(keys) |-> _getSnapshotSync(d, o, c, keys[i])]
      results == Find(query.query, NoOptions, found)
  IN  IF Truthy(Get(query.top, "$aggregate"))
        THEN [thrown |-> FALSE, snapshots |-> <<>>,
              extra |-> [kind |-> "agg", count |-> 0,
                         agg |-> Aggregate({kv \in query.top : kv[1] = "$aggregate"},
                                           [i \in 1..Len(found) |-> found[i].data.val])]]
      ELSE IF \E i \in 1..Len(found) : found[i].data.val = Null
        THEN [thrown |-> TRUE, snapshots |-> <<>>, extra |-> NoExtra]
      ELSE IF Truthy(Get(query.top, "$count"))
        THEN [thrown |-> FALSE, snapshots |-> <<>>,
              extra |-> [kind |-> "count", count |-> Len(results), agg |-> NoAggregate]]
      ELSE [thrown |-> FALSE, snapshots |-> results, extra |-> NoExtra]


(***************************************************************************)
(* The state machine.                                                      *)
(***************************************************************************)
VARIABLES
  docs,       \* this.docs
  ops,        \* this.ops
  closed,     \* this.closed
  queue,      \* the handlers process.nextTick holds, in the order they will run
  res,        \* the handler whose callback is running, and the callback's
              \* arguments; NoResult once the callback has returned
  crashed,    \* a handler threw: the exception leaves the tick uncaught
  ncommits,   \* commit calls issued so far
  nmut,       \* caller mutations so far
  accepted,   \* history: per document, the commits accepted and the last one's snapshot
  nwrites,    \* history: per document, the ops _writeOpSync has stored
  last        \* history: the commit handler that ran last

vars == <<docs, ops, closed, queue, res, crashed, ncommits, nmut,
          accepted, nwrites, last>>

NoOp == Op(FALSE, 0, 0)
NoExpr == Expr({})
NoResultSnapshot == MemorySnapshot(Null, 0, Null, Handle("fresh", 0, Null))

\* A deferred handler: the closure's captured arguments.  n is the ordinal of
\* a commit call; after is the ordinal of the commit for the same document
\* that was the last handler pending when this commit was issued (0: none).
Request(kind, n, c, id, op, snapshot, from, to, expression, after) ==
  [kind |-> kind, n |-> n, c |-> c, id |-> id, op |-> op, snapshot |-> snapshot,
   from |-> from, to |-> to, expression |-> expression, after |-> after]

\* Of a commit handler's run: which commit, the version it read, the op
\* writes the document had seen by then, whether it passed the version check,
\* whether it stored its op, and the length of the log when it finished.
Ran(n, c, id, version, w, passed, wrote, len) ==
  [n |-> n, c |-> c, id |-> id, version |-> version, w |-> w, passed |-> passed,
   wrote |-> wrote, len |-> len]
NoRun == Ran(0, "c1", "a", 0, 0, FALSE, FALSE, 0)

Result(kind, c, id, ran, prev, after, called, err, succeeded, snapshot, oplist,
       snapshots, extra) ==
  [kind |-> kind, c |-> c, id |-> id, ran |-> ran, prev |-> prev, after |-> after,
   called |-> called, err |-> err, succeeded |-> succeeded, snapshot |-> snapshot,
   ops |-> oplist, snapshots |-> snapshots, extra |-> extra, mutated |-> FALSE]
NoResult == Result("none", "c1", "a", NoRun, NoRun, 0, FALSE, NoError, Null,
                   NoResultSnapshot, <<>>, <<>>, NoExtra)

Init ==
  /\ docs = [c \in Collections |-> NoDocs]
  /\ ops = [c \in Collections |-> NoOps]
  /\ closed = FALSE
  /\ queue = <<>>
  /\ res = NoResult
  /\ crashed = FALSE
  /\ ncommits = 0
  /\ nmut = 0
  /\ accepted = [c \in Collections |-> [id \in Ids |-> [count |-> 0, last |-> NoSnapshot]]]
  /\ nwrites = [c \in Collections |-> [id \in Ids |-> 0]]
  /\ last = NoRun

\* (a scheduler that runs the handler deferred last first)
nextTick_First(q, fn) == <<fn>> \o q
\* process.nextTick(fn): fn runs after the handlers already pending.
nextTick(q, fn) == Append(q, fn)

Idle == ~crashed /\ res = NoResult
CanCall == Idle /\ Len(queue) < MaxQueue
store == <<docs, ops, accepted, nwrites, last>>

Pending(c, id) ==
  IF queue # <<>> /\ queue[Len(queue)].kind = "commit"
     /\ queue[Len(queue)].c = c /\ queue[Len(queue)].id = id
    THEN queue[Len(queue)].n ELSE 0

\* MemoryDB.prototype.commit: defers the handler.
commit(c, id, op, snapshot) ==
  /\ CanCall /\ ncommits < MaxCommits
  /\ queue' = nextTick(queue, Request("commit", ncommits + 1, c, id, op, snapshot,
                                      0, NoTo, NoExpr, Pending(c, id)))
  /\ ncommits' = ncommits + 1
  /\ UNCHANGED <<store, closed, res, crashed, nmut>>

getSnapshot(c, id) ==
  /\ CanCall
  /\ queue' = nextTick(queue, Request("getSnapshot", 0, c, id, NoOp, NoSnapshot,
                                      0, NoTo, NoExpr, 0))
  /\ UNCHANGED <<store, closed, res, crashed, ncommits, nmut>>

getOps(c, id, from, to) ==
  /\ CanCall
  /\ queue' = nextTick(queue, Request("getOps", 0, c, id, NoOp, NoSnapshot,
                                      from, to, NoExpr, 0))
  /\ UNCHANGED <<store, closed, res, crashed, ncommits, nmut>>

query(c, expression) ==
  /\ CanCall
  /\ queue' = nextTick(queue, Request("query", 0, c, "a", NoOp, NoSnapshot,
                                      0, NoTo, expression, 0))
  /\ UNCHANGED <<store, closed, res, crashed, ncommits, nmut>>

\* (a close that frees the stored snapshots)
close_Clear(callback) ==
  /\ Idle
  /\ closed' = TRUE
  /\ docs' = [c \in Collections |-> NoDocs]
  /\ res' = IF callback
              THEN Result("close", "c1", "a", NoRun, NoRun, 0, TRUE, NoError, Null,
                          NoResultSnapshot, <<>>, <<>>, NoExtra)
              ELSE res
  /\ UNCHANGED <<ops, accepted, nwrites, last, queue, crashed, ncommits, nmut>>

\* MemoryDB.prototype.close: sets the mark and, when it was given a callback,
\* calls it before it returns.  Nothing is deferred.
close(callback) ==
  /\ Idle
  /\ closed' = TRUE
  /\ res' = IF callback
              THEN Result("close", "c1", "a", NoRun, NoRun, 0, TRUE, NoError, Null,
                          NoResultSnapshot, <<>>, <<>>, NoExtra)
              ELSE res
  /\ UNCHANGED <<store, queue, crashed, ncommits, nmut>>

(***************************************************************************)
(* A tick: the handler at the head of the queue runs, up to its call of    *)
(* the callback; callbackReturns ends the tick.                            *)
(***************************************************************************)
Runs(kind) == Idle /\ queue # <<>> /\ Head(queue).kind = kind

callbackReturns ==
  /\ ~crashed /\ res.called
  /\ res' = NoResult
  /\ UNCHANGED <<store, closed, queue, crashed, ncommits, nmut>>

commitTick ==
  /\ Runs("commit")
  /\ LET req == Head(queue)
         h == commitHandler(docs, ops, req.c, req.id, req.op, req.snapshot)
         ran == Ran(req.n, req.c, req.id, h.version, nwrites[req.c][req.id],
                    h.succeeded # False, h.succeeded = True,
                    _getVersionSync(h.ops, req.c, req.id))
     IN  /\ docs' = h.docs
         /\ ops' = h.ops
         /\ res' = Result("commit", req.c, req.id, ran, last, req.after, TRUE, h.err,
                          h.succeeded, NoResultSnapshot, <<>>, <<>>, NoExtra)
         /\ last' = ran
         /\ accepted' = IF h.succeeded = True
                          THEN [accepted EXCEPT ![req.c][req.id] =
                                  [count |-> @.count + 1, last |-> req.snapshot]]
                          ELSE accepted
         /\ nwrites' = IF h.succeeded = True
                         THEN [nwrites EXCEPT ![req.c][req.id] = @ + 1]
                         ELSE nwrites
  /\ queue' = Tail(queue)
  /\ UNCHANGED <<closed, crashed, ncommits, nmut>>

getSnapshotTick ==
  /\ Runs("getSnapshot")
  /\ LET req == Head(queue) IN
     res' = Result("getSnapshot", req.c, req.id, NoRun, NoRun, 0, TRUE, NoError, Null,
                   _getSnapshotSync(docs, ops, req.c, req.id), <<>>, <<>>, NoExtra)
  /\ queue' = Tail(queue)
  /\ UNCHANGED <<store, closed, crashed, ncommits, nmut>>

getOpsTick ==
  /\ Runs("getOps")
  /\ LET req == Head(queue)
         h == getOpsHandler(ops, req.c, req.id, req.from, req.to)
     IN  /\ ops' = h.ops
         /\ res' = Result("getOps", req.c, req.id, NoRun, NoRun, 0, TRUE, NoError, Null,
                          NoResultSnapshot, h.result, <<>>, NoExtra)
  /\ queue' = Tail(queue)
  /\ UNCHANGED <<docs, accepted, nwrites, last, closed, crashed, ncommits, nmut>>

queryTick ==
  /\ Runs("query")
  /\ LET req == Head(queue)
         h == queryHandler(docs, ops, req.c, req.expression)
     IN  /\ res' = Result("query", req.c, req.id, NoRun, NoRun, 0, ~h.thrown, NoError,
                          Null, NoResultSnapshot, <<>>, h.snapshots, h.extra)
         /\ crashed' = h.thrown
  /\ queue' = Tail(queue)
  /\ UNCHANGED <<store, closed, ncommits, nmut>>

(***************************************************************************)
(* The caller mutates, in place, an object it holds: one a read returned   *)
(* to it, or an op it passed to commit.  Whoever holds the same object     *)
(* sees the change.                                                        *)
(***************************************************************************)
CanMutate == ~crashed /\ nmut < MaxMutations

\* ... the data of the snapshot getSnapshot returned
mutateSnapshot ==
  /\ CanMutate /\ res.called /\ ~res.mutated /\ res.kind = "getSnapshot"
  /\ res.snapshot.data.val # Null
  /\ res' = [res EXCEPT !.mutated = TRUE, !.snapshot.data.val = "objM"]
  /\ docs' = IF res.snapshot.data.ref = "store"
               THEN [docs EXCEPT ![res.c].m[res.id].data = "objM"]
               ELSE docs
  /\ nmut' = nmut + 1
  /\ UNCHANGED <<ops, accepted, nwrites, last, closed, queue, crashed, ncommits>>

\* ... one of the ops getOps returned
mutateOps(i) ==
  /\ CanMutate /\ res.called /\ ~res.mutated /\ res.kind = "getOps"
  /\ i \in 1..Len(res.ops) /\ res.ops[i].val.k = "op"
  /\ res' = [res EXCEPT !.mutated = TRUE, !.ops[i].val.mut = TRUE]
  /\ ops' = IF res.ops[i].ref = "store"
              THEN [ops EXCEPT ![res.c].m[res.id].items[res.ops[i].at + 1].mut = TRUE]
              ELSE ops
  /\ nmut' = nmut + 1
  /\ UNCHANGED <<docs, accepted, nwrites, last, closed, queue, crashed, ncommits>>

\* ... the data of one of the snapshots query returned
mutateFound(i) ==
  /\ CanMutate /\ res.called /\ ~res.mutated /\ res.kind = "query"
  /\ i \in 1..Len(res.snapshots)
  /\ res' = [res EXCEPT !.mutated = TRUE, !.snapshots[i].data.val = "objM"]
  /\ docs' = IF res.snapshots[i].data.ref = "store"
               THEN [docs EXCEPT ![res.c].m[res.snapshots[i].id].data = "objM"]
               ELSE docs
  /\ nmut' = nmut + 1
  /\ UNCHANGED <<ops, accepted, nwrites, last, closed, queue, crashed, ncommits>>

\* ... an op it passed to a commit that stored it: the log holds that object
mutateOp(c, id, i) ==
  /\ CanMutate /\ Idle /\ ops[c].def /\ ops[c].m[id].def
  /\ i \in 1..Len(ops[c].m[id].items)
  /\ ops[c].m[id].items[i].k = "op" /\ ~ops[c].m[id].items[i].mut
  /\ ops' = [ops EXCEPT ![c].m[id].items[i].mut = TRUE]
  /\ nmut' = nmut + 1
  /\ UNCHANGED <<docs, accepted, nwrites, last, closed, queue, res, crashed, ncommits>>

(***************************************************************************)
(* Spec: the caller awaits each callback before its next call.  Handlers   *)
(* run one at a time and in the order of the calls, so the store goes      *)
(* through the same states when calls are issued without waiting.          *)
(***************************************************************************)
Awaited == queue = <<>>

\* The documents the calls address: two ids of one collection.
Keys == {<<"c1", "a">>, <<"c1", "b">>}
Primary == <<"c1", "a">>

\* The op a well-behaved caller passes with a snapshot: v is the version
\* the snapshot follows.
Parent(snapshot, p) == Op(TRUE, snapshot.v - 1, p)
OpsIn(p) == {Op(FALSE, 0, p)} \cup {Op(TRUE, v, p) : v \in OpVersions}
SnapshotsIn == {Snapshot(v, Null, Null) : v \in SnapVersions}
               \cup {Snapshot(v, "T", data) : v \in SnapVersions, data \in DataIn}
PlainIn == {s \in SnapshotsIn : s.data \in {Null, "objX"}}
\* Commits: on the primary document any op with a tombstone or a plain
\* snapshot, and the parent op with any snapshot; on the other documents the
\* parent op with a tombstone or a plain snapshot.
CommitsIn(p) ==
  {<<Primary, op, s>> : op \in OpsIn(p), s \in PlainIn}
  \cup {<<Primary, Parent(s, p), s>> : s \in SnapshotsIn}
  \cup {<<k, Parent(s, p), s>> : k \in Keys, s \in PlainIn}
\* getOps: ranges inside, across and beyond the primary document's log, and
\* the whole log of every document.
GetOpsIn == {<<Primary, r[1], r[2]>> :
               r \in {<<1, NoTo>>, <<0, 1>>, <<1, 3>>, <<3, NoTo>>, <<3, 1>>}}
            \cup {<<k, 0, NoTo>> : k \in Keys}
QueriesIn == {Expr({}), Expr({<<"name", "x">>}),
              Expr({<<"name", "x">>, <<"$count", "true">>}),
              Expr({<<"$aggregate", "pipeline">>}),
              Canonical({<<"name", "y">>}, {})}
\* query: every expression on the collection of the documents, and one on a
\* collection nothing was ever committed to.
QueryCallsIn == {<<"c1", e>> : e \in QueriesIn} \cup {<<"c2", Expr({})>>}

Next ==
  \/ \E x \in CommitsIn(ncommits + 1) : Awaited /\ commit(x[1][1], x[1][2], x[2], x[3])
  \/ \E k \in Keys : Awaited /\ getSnapshot(k[1], k[2])
  \/ \E x \in GetOpsIn : Awaited /\ getOps(x[1][1], x[1][2], x[2], x[3])
  \/ \E x \in QueryCallsIn : Awaited /\ query(x[1], x[2])
  \/ \E callback \in BOOLEAN : close(callback)
  \/ commitTick
  \/ getSnapshotTick
  \/ getOpsTick
  \/ queryTick
  \/ callbackReturns
  \/ mutateSnapshot
  \/ \E i \in 1..3 : mutateOps(i)
  \/ \E i \in 1..2 : mutateFound(i)
  \/ \E k \in Keys, i \in 1..3 : mutateOp(k[1], k[2], i)

Spec == Init /\ [][Next]_vars

(***************************************************************************)
(* Burst: the caller issues calls without waiting for the callbacks, on    *)
(* one document.                                                           *)
(***************************************************************************)
BurstSnapshotsIn == {Snapshot(v, "T", "objX") : v \in SnapVersions}
BurstCommitsIn(p) == {<<Parent(s, p), s>> : s \in BurstSnapshotsIn}
                     \cup {<<Op(FALSE, 0, p), s>> : s \in BurstSnapshotsIn}

NextBurst ==
  \/ \E x \in BurstCommitsIn(ncommits + 1) : commit(Primary[1], Primary[2], x[1], x[2])
  \/ getSnapshot(Primary[1], Primary[2])
  \/ getOps(Primary[1], Primary[2], 0, NoTo)
  \/ query(Primary[1], Expr({}))
  \/ \E callback \in BOOLEAN : close(callback)
  \/ commitTick
  \/ getSnapshotTick
  \/ getOpsTick
  \/ queryTick
  \/ callbackReturns

Burst == Init /\ [][NextBurst]_vars

(***************************************************************************)
(* Queries: the caller awaits each callback; commits with the op the        *)
(* protocol prescribes fill two documents of one collection, and queries    *)
(* are made with every expression built from a set of top-level keys.       *)
(***************************************************************************)
QuerySnapshotsIn == {Snapshot(v, Null, Null) : v \in SnapVersions}
                    \cup {Snapshot(v, "T", data) : v \in SnapVersions, data \in DataIn}
\* Top-level keys: a selector field, the cursor operators, meta-operators,
\* and a selector field with the name of a member of Object.prototype.
QueryKeysIn == {<<"name", "x">>, <<"$limit", 1>>, <<"$skip", 1>>, <<"$count", "true">>,
                <<"$aggregate", "pipeline">>, <<"$comment", "c">>, <<"toString", "x">>}
QueryExprsIn == {Expr(flat) : flat \in SUBSET QueryKeysIn}
                \cup {Expr({<<"$count", "false">>}),
                      Canonical({<<"name", "x">>}, {}),
                      Canonical({<<"name", "y">>}, {<<"$count", "true">>}),
                      Canonical({<<"name", "x">>}, {<<"$limit", 1>>})}

NextQueries ==
  \/ \E k \in Keys, s \in QuerySnapshotsIn :
       Awaited /\ commit(k[1], k[2], Parent(s, ncommits + 1), s)
  \/ \E e \in QueryExprsIn : Awaited /\ query("c1", e)
  \/ commitTick
  \/ queryTick
  \/ callbackReturns

Queries == Init /\ [][NextQueries]_vars

(***************************************************************************)
(* Namespaces: the caller awaits each callback; commits go to documents of  *)
(* two collections, one id being used in both, and reads also address a     *)
(* document nothing is ever committed to.                                   *)
(***************************************************************************)
AllKeys == Collections \X Ids
NamespaceKeys == {<<"c1", "a">>, <<"c1", "b">>, <<"c2", "a">>}
Unwritten == <<"c2", "b">>
NamespaceSnapshotsIn == {Snapshot(v, Null, Null) : v \in SnapVersions}
                        \cup {Snapshot(v, "T", "objX") : v \in SnapVersions}
\* The op the protocol prescribes, and an op two versions ahead of it (its
\* write fails on a log that has not got that far).
NamespaceCommitsIn(p) ==
  {<<k, Parent(s, p), s>> : k \in NamespaceKeys, s \in NamespaceSnapshotsIn}
  \cup {<<k, Op(TRUE, s.v + 1, p), s>> : k \in NamespaceKeys, s \in NamespaceSnapshotsIn}

NextNamespaces ==
  \/ \E x \in NamespaceCommitsIn(ncommits + 1) :
       Awaited /\ commit(x[1][1], x[1][2], x[2], x[3])
  \/ \E k \in AllKeys : Awaited /\ getSnapshot(k[1], k[2])
  \/ \E k \in {Primary, Unwritten} : Awaited /\ getOps(k[1], k[2], 0, NoTo)
  \/ \E c \in Collections : Awaited /\ query(c, Expr({}))
  \/ commitTick
  \/ getSnapshotTick
  \/ getOpsTick
  \/ queryTick
  \/ callbackReturns

Namespaces == Init /\ [][NextNamespaces]_vars

(***************************************************************************)
(* FairLoop: calls issued without waiting, on one document, under a fair   *)
(* event loop: process.nextTick runs every handler it holds, and a         *)
(* callback that was invoked returns.  A handler that throws ends the      *)
(* process: nothing runs after it.                                         *)
(***************************************************************************)
LoopSnapshotsIn == {Snapshot(v, "T", data) : v \in SnapVersions, data \in {Null, "objX"}}
\* The op the protocol prescribes, and an op two versions ahead of it.
LoopCommitsIn(p) == {<<Parent(s, p), s>> : s \in LoopSnapshotsIn}
                    \cup {<<Op(TRUE, s.v + 1, p), s>> : s \in LoopSnapshotsIn}

NextLoop ==
  \/ \E x \in LoopCommitsIn(ncommits + 1) : commit(Primary[1], Primary[2], x[1], x[2])
  \/ getSnapshot(Primary[1], Primary[2])
  \/ getOps(Primary[1], Primary[2], 0, NoTo)
  \/ \E e \in {Expr({}), Expr({<<"$aggregate", "pipeline">>})} : query(Primary[1], e)
  \/ commitTick
  \/ getSnapshotTick
  \/ getOpsTick
  \/ queryTick
  \/ callbackReturns

FairLoop ==
  /\ Init /\ [][NextLoop]_vars
  /\ WF_vars(commitTick) /\ WF_vars(getSnapshotTick) /\ WF_vars(getOpsTick)
  /\ WF_vars(queryTick) /\ WF_vars(callbackReturns)

(***************************************************************************)
(* What the claims speak of.                                               *)
(***************************************************************************)
\* The op log of a document: its slots in order (empty when never created).
OpLogOf(o, c, id) == IF o[c].def /\ o[c].m[id].def THEN o[c].m[id].items ELSE <<>>
\* What a caller can read of the store: per document the snapshot, the whole
\* log as getOps returns it, and whether a query of its collection sees it.
ReadView(d, o) ==
  [k \in Keys |-> <<_getSnapshotSync(d, o, k[1], k[2]),
                    getOpsHandler(o, k[1], k[2], 0, NoTo).result,
                    HasDoc(d, k[1], k[2])>>]
\* The commit whose handler this step runs passes the version check.
PassesCheck == Head(queue).snapshot.v = _getVersionSync(ops, Head(queue).c, Head(queue).id) + 1
\* A commit's callback is running, with these arguments.
CommitCalledBack(err, succeeded) ==
  res.kind = "commit" /\ res.called /\ res.err = err /\ res.succeeded = succeeded

\* C1: once a commit for a document has been accepted, the version of the
\* document's snapshot equals the length of the document's op log.
C1_SnapshotVersionIsLogLength ==
  \A k \in Keys :
    accepted[k[1]][k[2]].count > 0 =>
      _getSnapshotSync(docs, ops, k[1], k[2]).v = Len(OpLogOf(ops, k[1], k[2]))

\* C2: a commit whose snapshot.v is not currentVersion + 1 calls back with no
\* error and succeeded = false, leaves docs and ops as they were, and the same
\* commit repeated is rejected the same way.
C2_RejectionChangesNothing ==
  [][(commitTick /\ ~PassesCheck) =>
       /\ res'.called /\ res'.err = NoError /\ res'.succeeded = False
       /\ docs' = docs /\ ops' = ops
       /\ LET req == Head(queue)
              again == commitHandler(docs', ops', req.c, req.id, req.op, req.snapshot)
          IN  again.err = NoError /\ again.succeeded = False
              /\ again.docs = docs /\ again.ops = ops]_vars

\* (a stale commit is rejected on a document that has a log and a snapshot)
C2_Witness ==
  /\ CommitCalledBack(NoError, False)
  /\ Len(OpLogOf(ops, res.c, res.id)) > 0
  /\ HasDoc(docs, res.c, res.id)

\* C3: an accepted commit stores its op at slot currentVersion, whatever the
\* op's v, and the log grows by exactly that one entry.
C3_OpStoredAtCurrentVersion ==
  [][(commitTick /\ res'.succeeded = True) =>
       LET req == Head(queue)
           version == _getVersionSync(ops, req.c, req.id)
           after == OpLogOf(ops', req.c, req.id)
       IN  Len(after) = version + 1 /\ after[version + 1] = req.op]_vars

\* C4: a commit never replaces or changes a written entry of any log, and
\* writes slot v only when the log has exactly v entries: every log stays
\* as it was or grows by one op at its end.
C4_LogAppendOnly ==
  [][commitTick =>
       \A k \in Keys :
         LET before == OpLogOf(ops, k[1], k[2])
             after == OpLogOf(ops', k[1], k[2])
         IN  \/ after = before
             \/ /\ Len(after) = Len(before) + 1
                /\ SubSeq(after, 1, Len(before)) = before
                /\ after[Len(after)].k = "op"]_vars

C6_FailedWriteChangesNothing ==
  [][(commitTick /\ PassesCheck /\ Head(queue).op.hasV
        /\ Len(OpLogOf(ops, Head(queue).c, Head(queue).id)) < Head(queue).op.v - 1) =>
       /\ res'.called /\ res'.err = ConsistencyError /\ res'.succeeded = Null
       /\ docs' = docs
       /\ \A k \in Keys : OpLogOf(ops', k[1], k[2]) = OpLogOf(ops, k[1], k[2])
       /\ accepted' = accepted]_vars

\* (the write fails on a document that has a stored snapshot)
C6_Witness ==
  /\ res.kind = "commit" /\ res.called /\ res.err = ConsistencyError
  /\ HasDoc(docs, res.c, res.id)

\* C7: after a tombstone commit was accepted at version N, the document is no
\* candidate of a query, getOps returns the N operations of its history, and
\* getSnapshot returns version N, no type and null data.
C7_TombstoneKeepsHistory ==
  (CommitCalledBack(NoError, True) /\ accepted[res.c][res.id].last.type = Null) =>
    LET N == accepted[res.c][res.id].last.v
        got == getOpsHandler(ops, res.c, res.id, 0, NoTo).result
        snapshot == _getSnapshotSync(docs, ops, res.c, res.id)
    IN  /\ ~HasDoc(docs, res.c, res.id)
        /\ Len(got) = N /\ \A i \in 1..Len(got) : got[i].val.k = "op"
        /\ snapshot.v = N /\ snapshot.type = Null /\ snapshot.data.val = Null

\* C8: after N accepted commits on a document getOps(from, to) calls back
\* with the operations [from, to) of the N committed, in commit order, to
\* null standing for N and both bounds clamped to N; never with an error.
C8_GetOpsRangeOfCommits ==
  [][getOpsTick =>
       LET req == Head(queue)
           N == accepted[req.c][req.id].count
           to == IF req.to = NoTo THEN N ELSE Min(req.to, N)
           from == Min(req.from, N)
           got == res'.ops
       IN  /\ res'.called /\ res'.err = NoError
           /\ Len(got) = (IF from < to THEN to - from ELSE 0)
           /\ \A i \in 1..Len(got) : got[i].val.k = "op"
           /\ \A i \in 1..Len(got), j \in 1..Len(got) :
                i < j => got[i].val.p < got[j].val.p]_vars

\* C9: getSnapshot calls back without an error, and for a document without
\* a stored snapshot with the sentinel: version = length of the op log,
\* no type, null data.
C9_SentinelSnapshot ==
  [][getSnapshotTick =>
       LET req == Head(queue) IN
       /\ res'.called /\ res'.err = NoError
       /\ ~HasDoc(docs, req.c, req.id) =>
            /\ res'.snapshot.v = Len(OpLogOf(ops, req.c, req.id))
            /\ res'.snapshot.type = Null
            /\ res'.snapshot.data.val = Null]_vars

\* (the sentinel of a deleted document that has a history)
C9_Witness ==
  /\ res.kind = "getSnapshot" /\ res.called
  /\ ~HasDoc(docs, res.c, res.id)
  /\ res.snapshot.v > 0 /\ res.snapshot.type = Null

\* C10 as stated: getSnapshot returns the version, type and data of the last
\* accepted commit's snapshot when that is no tombstone.
LastAccepted(c, id) == accepted[c][id].last
C10_ReturnsLastCommitted ==
  [][(getSnapshotTick /\ LastAccepted(Head(queue).c, Head(queue).id).type # Null) =>
       LET given == LastAccepted(Head(queue).c, Head(queue).id) IN
       /\ res'.snapshot.v = given.v /\ res'.snapshot.type = given.type
       /\ res'.snapshot.data.val = given.data]_vars

\* C10 as amended: getSnapshot returns the version and type of the last
\* accepted commit's snapshot, and as data the JSON round trip of its data
\* (the data itself only when that is plain JSON); and what a read returned
\* is a fresh copy: the caller's mutation of it changes nothing a later read
\* returns.
C10_ReturnsCloneOfLastCommitted ==
  /\ [][(getSnapshotTick /\ LastAccepted(Head(queue).c, Head(queue).id).type # Null) =>
          LET given == LastAccepted(Head(queue).c, Head(queue).id) IN
          /\ res'.snapshot.v = given.v /\ res'.snapshot.type = given.type
          /\ res'.snapshot.data.val = JSONData(given.data)
          /\ (given.data \in {Null, "objX"} => res'.snapshot.data.val = given.data)]_vars
  /\ [][(res.called /\ res'.mutated /\ ~res.mutated) =>
          ReadView(docs', ops') = ReadView(docs, ops)]_vars

\* (the caller mutates the data getSnapshot returned after two accepted commits)
C10_Witness ==
  /\ res.kind = "getSnapshot" /\ res.mutated
  /\ accepted[res.c][res.id].count = 2
  /\ LastAccepted(res.c, res.id).data = "objDate"

\* C11: after a commit was accepted, the caller's mutation of the op object
\* it had passed to that commit changes nothing that getOps and getSnapshot
\* return afterwards.
C11_StoreKeepsOwnCopies ==
  [][(\E k \in Keys, i \in 1..3 : mutateOp(k[1], k[2], i)) =>
       ReadView(docs', ops') = ReadView(docs, ops)]_vars

\* C12: the callback of an operation starts only in a tick of the event
\* loop, that is in a step that takes a deferred handler off the queue, never
\* in the step of the call; and no handler throws instead of calling back.
C12_CallbackOnlyOnLaterTick ==
  /\ [][(res'.called /\ ~res.called) => (queue # <<>> /\ queue' = Tail(queue))]_vars
  /\ [][~crashed']_vars

\* The live documents of a collection: the stored snapshots, in the order a
\* query goes through them.
Live(d, c) ==
  LET keys == IF d[c].def THEN d[c].keys ELSE <<>> IN
  [i \in 1..Len(keys) |-> [id |-> keys[i], v |-> d[c].m[keys[i]].v,
                           type |-> d[c].m[keys[i]].type, data |-> d[c].m[keys[i]].data]]
\* What a query returned, as plain snapshots.
Returned(snapshots) ==
  [i \in 1..Len(snapshots) |-> [id |-> snapshots[i].id, v |-> snapshots[i].v,
                                type |-> snapshots[i].type, data |-> snapshots[i].data.val]]

\* C13: query calls back, in find mode with exactly the snapshots of the live
\* documents of the collection whose data matches the selector, in their
\* order, and no extra; with $count present with no snapshots and the number
\* of matches; with $aggregate present with no snapshots and the aggregation
\* over the data of the live documents.  ($count and $aggregate count as
\* present when their value is truthy.)
C13_QueryReturnsMatches ==
  [][queryTick =>
       LET req == Head(queue)
           q == normalizeQuery(req.expression)
           live == Live(docs, req.c)
           matching == SelectSeq(live, LAMBDA s : Matches(q.query, s.data))
       IN  /\ res'.called /\ res'.err = NoError
           /\ IF Truthy(Get(q.top, "$aggregate"))
                THEN /\ res'.snapshots = <<>> /\ res'.extra.kind = "agg"
                     /\ res'.extra.agg.datas = [i \in 1..Len(live) |-> live[i].data]
              ELSE IF Truthy(Get(q.top, "$count"))
                THEN /\ res'.snapshots = <<>> /\ res'.extra.kind = "count"
                     /\ res'.extra.count = Len(matching)
              ELSE Returned(res'.snapshots) = matching /\ res'.extra = NoExtra]_vars

\* C14: normalize of a flat expression puts every top-level key in exactly
\* one place: a meta-operator of the list at the top level of the result,
\* $limit and $skip in $findOptions as limit and skip, every other key in
\* $query; {foo: 1, $limit: 5, $count: true} gives
\* {$query: {foo: 1}, $findOptions: {limit: 5}, $count: true}.
C14_NormalizePlacesEveryKey ==
  /\ normalizeQuery(Expr({<<"foo", 1>>, <<"$limit", 5>>, <<"$count", "true">>}))
       = [query |-> {<<"foo", 1>>}, findOptions |-> {<<"limit", 5>>},
          top |-> {<<"$count", "true">>}]
  /\ \A i \in 1..Len(queue) :
       (queue[i].kind = "query" /\ ~queue[i].expression.hasQuery) =>
         LET flat == queue[i].expression.flat
             n == normalizeQuery(queue[i].expression)
         IN  /\ n.top = {kv \in flat : kv[1] \in metaOperators}
             /\ n.findOptions = {<<"limit", kv[2]>> : kv \in {x \in flat : x[1] = "$limit"}}
                                \cup {<<"skip", kv[2]>> : kv \in {x \in flat : x[1] = "$skip"}}
             /\ n.query = {kv \in flat : kv[1] \notin metaOperators
                                         /\ kv[1] \notin {"$limit", "$skip"}}

\* C15: the cursor operators of the expression reach the evaluator as
\* options of its call: a find-mode query answers with what the evaluator
\* finds under the options limit and skip that $limit and $skip gave.
C15_OptionsReachEvaluator ==
  [][(queryTick /\ res'.called /\ ~Head(queue).expression.hasQuery
        /\ res'.extra = NoExtra) =>
       LET req == Head(queue)
           q == normalizeQuery(req.expression)
           keys == IF docs[req.c].def THEN docs[req.c].keys ELSE <<>>
           candidates == [i \in 1..Len(keys) |-> _getSnapshotSync(docs, ops, req.c, keys[i])]
       IN  res'.snapshots = Find(q.query, q.findOptions, candidates)]_vars

\* C16: close sets the closed mark and changes nothing else of the store,
\* whether the store was closed before or not; the mark once set stays set;
\* and on a closed store every handler answers and writes as its function of
\* the stored logs and snapshots and its arguments says, the same as on a
\* store that was never closed.
C16_CloseOnlyMarks ==
  /\ [][(closed' /\ ~closed) \/ (res'.kind = "close" /\ res.kind # "close") =>
          closed' /\ docs' = docs /\ ops' = ops /\ queue' = queue]_vars
  /\ [][closed => closed']_vars
  /\ [][(closed /\ commitTick) =>
          LET req == Head(queue)
              h == commitHandler(docs, ops, req.c, req.id, req.op, req.snapshot)
          IN  /\ res'.err = h.err /\ res'.succeeded = h.succeeded
              /\ docs' = h.docs /\ ops' = h.ops]_vars
  /\ [][(closed /\ getSnapshotTick) =>
          /\ res'.snapshot = _getSnapshotSync(docs, ops, Head(queue).c, Head(queue).id)
          /\ docs' = docs /\ ops' = ops]_vars
  /\ [][(closed /\ getOpsTick) =>
          LET req == Head(queue) IN
          res'.ops = getOpsHandler(ops, req.c, req.id, req.from, req.to).result
          /\ docs' = docs]_vars
  /\ [][(closed /\ queryTick) =>
          LET h == queryHandler(docs, ops, Head(queue).c, Head(queue).expression) IN
          res'.snapshots = h.snapshots /\ res'.extra = h.extra
          /\ docs' = docs /\ ops' = ops]_vars

\* (a commit is accepted on a store that was closed, with a snapshot stored)
C16_Witness ==
  /\ closed /\ CommitCalledBack(NoError, True)
  /\ accepted[res.c][res.id].count = 2
  /\ HasDoc(docs, res.c, res.id)

\* C17: the version getSnapshot reports for a document never decreases,
\* whatever operation runs: commits that delete the document and commits
\* that recreate it included.
C17_VersionNeverDecreases ==
  [][\A k \in Keys :
       _getSnapshotSync(docs', ops', k[1], k[2]).v >= _getSnapshotSync(docs, ops, k[1], k[2]).v]_vars

\* C18: a commit for (collection, id), accepted, rejected or failed, leaves
\* the op log and the stored snapshot of every other document as they were:
\* of the other ids of its collection and of every id of the other
\* collections, its own id included.
C18_CommitTouchesOneDocument ==
  [][commitTick =>
       \A k \in AllKeys :
         k # <<Head(queue).c, Head(queue).id>> =>
           /\ ops'[k[1]].m[k[2]] = ops[k[1]].m[k[2]]
           /\ docs'[k[1]].m[k[2]] = docs[k[1]].m[k[2]]
           /\ HasDoc(docs', k[1], k[2]) = HasDoc(docs, k[1], k[2])]_vars

\* (a commit is accepted for an id that has a log and a snapshot in the other
\* collection)
C18_Witness ==
  /\ CommitCalledBack(NoError, True)
  /\ \E c \in Collections \ {res.c} :
       HasDoc(docs, c, res.id) /\ Len(OpLogOf(ops, c, res.id)) > 0

\* What the store holds for every document: its version, the version
\* getSnapshot reports, the entries of its op log, and its stored snapshot.
StoreView(d, o) ==
  [k \in AllKeys |-> <<_getVersionSync(o, k[1], k[2]), _getSnapshotSync(d, o, k[1], k[2]).v,
                       OpLogOf(o, k[1], k[2]), HasDoc(d, k[1], k[2]), d[k[1]].m[k[2]]>>]

\* C19: a getSnapshot, getOps or query changes no document's version, op-log
\* entries or stored snapshot, also when it addresses a collection or an id
\* nothing was committed to; of the operations of the store (every step but
\* the caller's own writes to objects it holds) only an accepted commit
\* changes them.
C19_ReadsChangeNothing ==
  /\ [][(getSnapshotTick \/ getOpsTick \/ queryTick) =>
          StoreView(docs', ops') = StoreView(docs, ops)]_vars
  /\ [][(StoreView(docs', ops') # StoreView(docs, ops) /\ nmut' = nmut) =>
          (commitTick /\ res'.succeeded = True)]_vars

\* (getOps has run for a document of a collection nothing was committed to,
\* and has created its empty log, while another document has a history)
C19_Witness ==
  /\ res.kind = "getOps" /\ res.called /\ <<res.c, res.id>> = Unwritten
  /\ ops[res.c].m[res.id].def
  /\ \A id \in Ids : accepted[res.c][id].count = 0
  /\ \E k \in NamespaceKeys : Len(OpLogOf(ops, k[1], k[2])) > 0 /\ HasDoc(docs, k[1], k[2])

\* C20: under a fair event loop every commit, getSnapshot, getOps and query
\* that was issued comes to invoke its callback, once: the handler at the
\* head of the queue, whatever its kind, and every pending commit; a handler
\* invokes the callback in the tick that takes it off the queue; and a
\* commit's callback gets one of (no error, false), (error), (no error, true).
Kinds == {"commit", "getSnapshot", "getOps", "query"}
C20_EveryCallCallsBack ==
  /\ \A kind \in Kinds :
       (queue # <<>> /\ Head(queue).kind = kind) ~> (res.called /\ res.kind = kind)
  /\ \A n \in 1..MaxCommits :
       (\E i \in 1..Len(queue) : queue[i].kind = "commit" /\ queue[i].n = n)
         ~> (res.called /\ res.kind = "commit" /\ res.ran.n = n)
  /\ [][(res'.called /\ ~res.called) => (queue # <<>> /\ queue' = Tail(queue))]_vars
  /\ [](res.kind = "commit" /\ res.called =>
          \/ res.err = NoError /\ res.succeeded = False
          \/ res.err # NoError /\ res.succeeded = Null
          \/ res.err = NoError /\ res.succeeded = True)

====
